---- MODULE Spec2Model ----
(***************************************************************************)
(* A model of src/utils.py: calculate_genre_preferences (the preference    *)
(* aggregator), find_similar_users (the similarity ranker) and             *)
(* find_next_best_genre (the genre recommender).                           *)
(*                                                                         *)
(* Representation.                                                         *)
(*  - A Python str is a sequence of tokens; the tokens are the pieces the  *)
(*    code can tell apart: "[", "]", ",", a quoted literal such as 'Rock'  *)
(*    and a bare word such as Rock.  The str "[Rock" is <<"[", "Rock">>.   *)
(*  - A Python value used as a genre key is a record [t, v]: t is its      *)
(*    type ("str", "list", "tuple") and v the tokens of a str.             *)
(*  - A dict is a sequence of [key, val] records in insertion order.       *)
(*  - A rating cell is <<>> (null / NaN) or <<r>> for the number r.        *)
(*  - A quotient is an exact rational [n, d] in lowest terms, d > 0.       *)
(***************************************************************************)
EXTENDS Integers, Sequences, FiniteSets, TLC

VARIABLES pc, table, prefs, err, fn, target, n, similar, k, ranked, best

vars == <<pc, table, prefs, err, fn, target, n, similar, k, ranked, best>>

(***************************************************************************)
(* Bounds of the model.                                                    *)
(***************************************************************************)
MaxRows == 2

MaxN == 2

MaxK == 2

MaxSimilar == 2

(***************************************************************************)
(* Exact rationals: total / count and everything computed from it.         *)
(***************************************************************************)
RECURSIVE GCD(_, _)
GCD(a, b) == IF b = 0 THEN a ELSE GCD(b, a % b)

Abs(x) == IF x < 0 THEN -x ELSE x

Rat(a, b) ==
    LET g == GCD(Abs(a), Abs(b))
        s == IF b < 0 THEN -1 ELSE 1
    IN  [n |-> (s * a) \div g, d |-> (s * b) \div g]

Zero == Rat(0, 1)

RatAdd(x, y) == Rat(x.n * y.d + y.n * x.d, x.d * y.d)

RatMul(x, y) == Rat(x.n * y.n, x.d * y.d)

RatLess(x, y) == x.n * y.d < y.n * x.d

(***************************************************************************)
(* Ordered dicts (insertion order is kept, as in Python 3.7+).             *)
(***************************************************************************)
Range(seq) == {seq[i] : i \in 1..Len(seq)}

Keys(d) == {d[i].key : i \in 1..Len(d)}

KeyList(d) == [i \in 1..Len(d) |-> d[i].key]

IndexOf(d, key) == CHOOSE i \in 1..Len(d) : d[i].key = key

Get(d, key) == d[IndexOf(d, key)].val

Put(d, key, val) ==
    IF key \in Keys(d)
    THEN [d EXCEPT ![IndexOf(d, key)] = [key |-> key, val |-> val]]
    ELSE Append(d, [key |-> key, val |-> val])

(***************************************************************************)
(* ast.literal_eval on the token language.                                 *)
(***************************************************************************)
Unquote == ("'Rock'" :> "Rock") @@ ("'Pop'" :> "Pop")

Words == {"Rock", "Pop"}

Str(toks) == [t |-> "str", v |-> toks]

NoValue == [t |-> "none", v |-> <<>>]

\* A parse result: st is "lit" (a literal), "nonlit" (valid syntax that is no
\* literal: a name, a subscript) or "syntax" (a syntax error); nxt is the
\* position after it; val its value, with len and first for a list or tuple.
Parsed(st, nxt, val, len, first) ==
    [st |-> st, nxt |-> nxt, val |-> val, len |-> len, first |-> first]

SyntaxErr == Parsed("syntax", 0, NoValue, 0, NoValue)

RECURSIVE QuotedRun(_, _, _)
QuotedRun(s, i, acc) ==
    IF i <= Len(s) /\ s[i] \in DOMAIN Unquote
    THEN QuotedRun(s, i + 1, Append(acc, Unquote[s[i]]))
    ELSE Parsed("lit", i, Str(acc), 0, NoValue)

RECURSIVE WordRun(_, _)
WordRun(s, i) ==
    IF i <= Len(s) /\ s[i] \in Words
    THEN WordRun(s, i + 1)
    ELSE Parsed("nonlit", i, NoValue, 0, NoValue)

\* Whether position i closes a display: "]" for a list display or a subscript,
\* "" (the end of the text) for the top level.
AtClose(s, i, close) ==
    IF close = "" THEN i > Len(s) ELSE i <= Len(s) /\ s[i] = close

\* The display closed at position j, after cnt items and the item last: a list
\* for "[...]", a tuple at the top level when a comma was read, and the one
\* expression itself otherwise.
Closed(close, j, cnt, first, acc, last) ==
    IF close = "]" THEN Parsed(acc.lit, j + 1, [t |-> "list", v |-> <<>>], cnt, first)
    ELSE IF acc.commas > 0 THEN Parsed(acc.lit, j, [t |-> "tuple", v |-> <<>>], cnt, first)
    ELSE Parsed(acc.lit, j, last.val, last.len, last.first)

AllLit(acc, e, commas) ==
    [lit |-> IF acc.lit = "lit" /\ e.st = "lit" THEN "lit" ELSE "nonlit",
     commas |-> acc.commas + commas]

RECURSIVE ParseItems(_, _, _, _, _, _, _)
RECURSIVE AfterItem(_, _, _, _, _, _)
RECURSIVE ParseOperand(_, _)
RECURSIVE ParsePostfix(_, _)
RECURSIVE AfterSubscript(_, _)

\* The items of a display from position i on, up to its closing token.  cnt
\* items have been read, first is the first and last the last of them, acc.lit
\* says whether all of them were literals, acc.commas counts the commas read.
ParseItems(s, i, close, cnt, first, acc, last) ==
    IF AtClose(s, i, close)
    THEN IF close = "" /\ cnt = 0 THEN SyntaxErr
         ELSE Closed(close, i, cnt, first, acc, last)
    ELSE IF i > Len(s) THEN SyntaxErr
    ELSE AfterItem(s, close, cnt, first, acc, ParseOperand(s, i))

\* The item e has been read: a comma, the closing token, or a syntax error.
AfterItem(s, close, cnt, first, acc, e) ==
    IF e.st = "syntax" THEN SyntaxErr
    ELSE IF e.nxt <= Len(s) /\ s[e.nxt] = ","
    THEN ParseItems(s, e.nxt + 1, close, cnt + 1, IF cnt = 0 THEN e.val ELSE first,
                    AllLit(acc, e, 1), e)
    ELSE IF AtClose(s, e.nxt, close)
    THEN Closed(close, e.nxt, cnt + 1, IF cnt = 0 THEN e.val ELSE first,
                AllLit(acc, e, 0), e)
    ELSE SyntaxErr

\* The operand that starts at position i, without its subscripts.
Primary(s, i) ==
    IF s[i] \in DOMAIN Unquote THEN QuotedRun(s, i, <<>>)
    ELSE IF s[i] \in Words THEN WordRun(s, i)
    ELSE IF s[i] = "["
    THEN ParseItems(s, i + 1, "]", 0, NoValue, [lit |-> "lit", commas |-> 0], SyntaxErr)
    ELSE SyntaxErr

\* A subscript after a complete operand, x[...], is valid syntax and never a
\* literal.
ParsePostfix(s, r) ==
    IF r.st # "syntax" /\ r.nxt <= Len(s) /\ s[r.nxt] = "["
    THEN AfterSubscript(s, ParseItems(s, r.nxt + 1, "]", 0, NoValue,
                                      [lit |-> "lit", commas |-> 0], SyntaxErr))
    ELSE r

AfterSubscript(s, sub) ==
    IF sub.st = "syntax" \/ sub.len = 0 THEN SyntaxErr
    ELSE ParsePostfix(s, Parsed("nonlit", sub.nxt, NoValue, 0, NoValue))

ParseOperand(s, i) ==
    IF i > Len(s) THEN SyntaxErr ELSE ParsePostfix(s, Primary(s, i))

\* What ast.literal_eval makes of a parse of the whole text.
Evaluated(r) ==
    IF r.st = "syntax"
    THEN [res |-> "SyntaxError", val |-> NoValue, len |-> 0, first |-> NoValue]
    ELSE IF r.st = "nonlit"
    THEN [res |-> "ValueError", val |-> NoValue, len |-> 0, first |-> NoValue]
    ELSE [res |-> "ok", val |-> r.val, len |-> r.len, first |-> r.first]

\* [res |-> "ok" | "SyntaxError" | "ValueError", val, len, first]
literal_eval(s) ==
    Evaluated(ParseItems(s, 1, "", 0, NoValue, [lit |-> "lit", commas |-> 0], SyntaxErr))

(***************************************************************************)
(* calculate_genre_preferences.                                            *)
(***************************************************************************)
\* The columns of the rating table.  A column name is a sequence of tokens,
\* so that col.startswith('user_') is a test of its first token.
Columns == << <<"genre">>, <<"title">>, <<"user_", "A">>, <<"user_", "B">> >>

IsUserCol(col) == Head(col) = "user_"

UserCols == SelectSeq(Columns, IsUserCol)

IsNa(cell) == cell = <<>>

\* Lines 27-32: the genre of a bracketed text, given genres, the outcome of
\* ast.literal_eval(genre).
ListGenre(raw, genres) ==
    IF genres.res \in {"ValueError", "SyntaxError"}
    THEN [skip |-> FALSE, raise |-> "none", genre |-> Str(raw)]
    ELSE IF genres.val.t = "list"
    THEN IF genres.len = 0
         THEN [skip |-> FALSE, raise |-> "IndexError", genre |-> NoValue]
         ELSE [skip |-> FALSE, raise |-> "none", genre |-> genres.first]
    ELSE [skip |-> FALSE, raise |-> "none", genre |-> Str(raw)]

\* row['genre'] is [isStr, s]: a str with tokens s, or something that is not
\* a str (a missing cell read as NaN).
\* Lines 18-32: whether the row is skipped, the genre it counts for, and the
\* exception the row's genre raises ("none" when it raises nothing).
RowGenre(cell) ==
    IF ~cell.isStr \/ cell.s = <<>>
    THEN [skip |-> TRUE, raise |-> "none", genre |-> NoValue]
    ELSE IF Head(cell.s) = "[" /\ cell.s[Len(cell.s)] = "]"
    THEN ListGenre(cell.s, literal_eval(cell.s))
    ELSE [skip |-> FALSE, raise |-> "none", genre |-> Str(cell.s)]

Hashable(val) == val.t = "str"

NewStats == <<0, Zero, 0>>

\* Mutant of UpdateStats: the total is overwritten, not added to.
UpdateStats_Overwrite(current_stats, rating) ==
    LET total == rating
        count == current_stats[3] + 1
    IN  <<total, Rat(total, count), count>>

\* Mutant of UpdateStats: the average is folded from the running average, not
\* recomputed from total and count.
UpdateStats_RunningMean(current_stats, rating) ==
    LET total == current_stats[1] + rating
        count == current_stats[3] + 1
    IN  <<total, RatMul(RatAdd(current_stats[2], Rat(rating, 1)), Rat(1, 2)), count>>

\* Lines 43-46: current_stats is the (user, genre) entry, created [0, 0, 0]
\* when absent; total, count and average are updated in place.
UpdateStats(current_stats, rating) ==
    LET total == current_stats[1] + rating
        count == current_stats[3] + 1
    IN  <<total, Rat(total, count), count>>

\* user_genre_preferences[user_col][genre], both levels a defaultdict.
Lookup(d, user_col, genre) ==
    IF user_col \in Keys(d) /\ genre \in Keys(Get(d, user_col))
    THEN Get(Get(d, user_col), genre)
    ELSE NewStats

Store(d, user_col, genre, stats) ==
    Put(d, user_col, Put(IF user_col \in Keys(d) THEN Get(d, user_col) ELSE <<>>,
                         genre, stats))

\* Lines 35-46 for one row: the user columns from position j on.
RECURSIVE ProcessUsers(_, _, _, _)
ProcessUsers(acc, row, genre, j) ==
    IF acc.err # "none" \/ j > Len(UserCols) THEN acc
    ELSE LET user_col == UserCols[j]
         IN  IF IsNa(row.rating[user_col])
             THEN ProcessUsers(acc, row, genre, j + 1)
             ELSE IF ~Hashable(genre)
             THEN [err |-> "TypeError", prefs |-> acc.prefs]
             ELSE ProcessUsers(
                    [err |-> "none",
                     prefs |-> Store(acc.prefs, user_col, genre,
                                     UpdateStats(Lookup(acc.prefs, user_col, genre),
                                                 row.rating[user_col][1]))],
                    row, genre, j + 1)

\* Lines 17-46 for one row whose genre outcome is g.
ProcessRow(acc, row, g) ==
    IF g.skip THEN acc
    ELSE IF g.raise # "none" THEN [err |-> g.raise, prefs |-> acc.prefs]
    ELSE ProcessUsers(acc, row, g.genre, 1)

\* Lines 16-48: the rows from position i on; an exception ends the loop.
RECURSIVE ProcessRows(_, _, _)
ProcessRows(acc, songs_df, i) ==
    IF acc.err # "none" \/ i > Len(songs_df) THEN acc
    ELSE ProcessRows(ProcessRow(acc, songs_df[i], RowGenre(songs_df[i].genre)),
                     songs_df, i + 1)

\* [err, prefs]: the mapping returned, or the exception that propagates.
calculate_genre_preferences(songs_df) ==
    ProcessRows([err |-> "none", prefs |-> <<>>], songs_df, 1)

(***************************************************************************)
(* The rating tables of the aggregator's specification.                    *)
(***************************************************************************)
NotAStr == [isStr |-> FALSE, s |-> <<>>]

GenreCells ==
    {NotAStr} \cup
    {[isStr |-> TRUE, s |-> s] :
        s \in { <<>>,
                <<"Rock">>,
                <<"Pop">>,
                <<"[", "'Rock'", ",", "'Pop'", "]">>,
                <<"[", "Pop">>,
                <<"[", "Pop", "]">>,
                <<"[", "]">>,
                <<"[", "[", "]", "]">>,
                <<"[", "'Pop'", "]", ",", "[", "'Rock'", "]">> }}

\* The cells of a user column: null, or a rating.  The second user column
\* takes one rating only, to keep the tables few.
RatingCells(user_col) ==
    IF user_col = UserCols[1] THEN {<<>>, <<1>>, <<2>>} ELSE {<<>>, <<2>>}

UserColSet == {UserCols[j] : j \in 1..Len(UserCols)}

Rows ==
    {row \in [genre : GenreCells, rating : [UserColSet -> {<<>>, <<1>>, <<2>>}]] :
        \A u \in UserColSet : row.rating[u] \in RatingCells(u)}

NoArgs ==
    /\ fn = "none"
    /\ target = <<>>
    /\ n = 0
    /\ similar = <<>>
    /\ k = 0
    /\ ranked = <<>>
    /\ best = <<>>

InitAgg ==
    /\ pc = "start"
    /\ \E m \in 0..MaxRows : table \in [1..m -> Rows]
    /\ prefs = <<>>
    /\ err = "none"
    /\ NoArgs

CalculateGenrePreferences ==
    /\ pc = "start"
    /\ LET out == calculate_genre_preferences(table)
       IN  /\ prefs' = IF out.err = "none" THEN out.prefs ELSE <<>>
           /\ err' = out.err
    /\ pc' = "aggregated"
    /\ fn' = "calculate_genre_preferences"
    /\ UNCHANGED <<table, target, n, similar, k, ranked, best>>

NextAgg == CalculateGenrePreferences

SpecAgg == InitAgg /\ [][NextAgg]_vars

(***************************************************************************)
(* Claims about calculate_genre_preferences, checked under SpecAgg.        *)
(***************************************************************************)
Returned == pc = "aggregated" /\ err = "none"

HasEntry(d, u, g) == u \in Keys(d) /\ g \in Keys(Get(d, u))

\* The (user, genre, stats) triples of a mapping, insertion order forgotten.
EntrySet(d) ==
    UNION {{<<d[i].key, d[i].val[j].key, d[i].val[j].val>> : j \in 1..Len(d[i].val)} :
            i \in 1..Len(d)}

IsStrCell(cell) == cell.isStr /\ cell.s # <<>>

\* The rows that count for (u, g): a non-empty str genre whose effective genre
\* is g, and a rating of u that is not null.
CountedRows(t, u, g) ==
    {i \in 1..Len(t) : /\ IsStrCell(t[i].genre)
                       /\ RowGenre(t[i].genre).genre = g
                       /\ ~IsNa(t[i].rating[u])}

RECURSIVE SumRatings(_, _, _)
SumRatings(t, u, S) ==
    IF S = {} THEN 0
    ELSE LET i == CHOOSE x \in S : TRUE
         IN  t[i].rating[u][1] + SumRatings(t, u, S \ {i})

GenresSeen(t, d) ==
    {RowGenre(t[i].genre).genre : i \in {x \in 1..Len(t) : IsStrCell(t[x].genre)}}
    \cup {e[2] : e \in EntrySet(d)}

\* C1: when the aggregator returns, (u, g) has an entry iff some row with a
\* non-empty str genre of effective genre g has a non-null rating of u; its
\* count is the number of those rows, its total their sum and its average
\* total / count.  Rows without a str genre count for nothing, and only user
\* columns are keys.
C1_AggregateStats ==
    Returned =>
        /\ Keys(prefs) \subseteq UserColSet
        /\ \A u \in UserColSet : \A g \in GenresSeen(table, prefs) :
              LET R == CountedRows(table, u, g)
              IN  /\ HasEntry(prefs, u, g) <=> R # {}
                  /\ R # {} =>
                       LET st == Get(Get(prefs, u), g)
                       IN  /\ st[3] = Cardinality(R)
                           /\ st[3] >= 1
                           /\ st[1] = SumRatings(table, u, R)
                           /\ st[2] = Rat(st[1], st[3])

\* A returned mapping with an entry counted twice (a plain genre and a list
\* literal naming it), whose average is no integer, beside a null cell.
C1_Witness ==
    /\ Returned
    /\ Len(table) = 2
    /\ table[1].genre.s = <<"Rock">>
    /\ table[2].genre.s = <<"[", "'Rock'", ",", "'Pop'", "]">>
    /\ IsNa(table[1].rating[<<"user_", "B">>])
    /\ HasEntry(prefs, <<"user_", "A">>, Str(<<"Rock">>))
    /\ HasEntry(prefs, <<"user_", "B">>, Str(<<"Rock">>))
    /\ Get(Get(prefs, <<"user_", "A">>), Str(<<"Rock">>)) = <<3, Rat(3, 2), 2>>
    /\ Get(Get(prefs, <<"user_", "B">>), Str(<<"Rock">>)) = <<2, Rat(2, 1), 1>>

Bracketed(cell) ==
    cell.isStr /\ cell.s # <<>> /\ Head(cell.s) = "[" /\ cell.s[Len(cell.s)] = "]"

\* The genre the claim gives a bracketed cell: the first element when the text
\* parses to a non-empty list, the raw text otherwise.
ClaimedOf(raw, r) ==
    IF r.res = "ok" /\ r.val.t = "list" /\ r.len > 0 THEN r.first ELSE Str(raw)

ClaimedGenre(cell) == ClaimedOf(cell.s, literal_eval(cell.s))

\* C2 (as claimed): no bracketed genre makes the aggregator raise; each counts
\* under the first element of the list it parses to, or under its raw text.
C2_BracketedNeverRaises ==
    pc = "aggregated" =>
        /\ err = "none"
        /\ \A i \in 1..Len(table) : \A u \in UserColSet :
              (Bracketed(table[i].genre) /\ ~IsNa(table[i].rating[u]))
                 => HasEntry(prefs, u, ClaimedGenre(table[i].genre))

PermsOf(t) == {[i \in 1..Len(t) |-> t[p[i]]] : p \in Permutations(1..Len(t))}

\* C3: every permutation of the rows gives the same outcome: the aggregator
\* returns for both or for neither, and when it returns, the same
\* (user, genre) pairs with the same total, average and count.
C3_RowOrderInsensitive ==
    pc = "aggregated" =>
        \A t2 \in PermsOf(table) :
            LET o == calculate_genre_preferences(t2)
            IN  /\ (o.err = "none") <=> (err = "none")
                /\ (err = "none") => EntrySet(o.prefs) = EntrySet(prefs)

\* Two rows in an order that matters to the running average: the same user
\* and genre, different ratings.
C3_Witness ==
    /\ Returned
    /\ Len(table) = 2
    /\ table[1] # table[2]
    /\ \E u \in UserColSet : \E g \in GenresSeen(table, prefs) :
          /\ CountedRows(table, u, g) = {1, 2}
          /\ table[1].rating[u] # table[2].rating[u]

(***************************************************************************)
(* find_similar_users.                                                     *)
(***************************************************************************)
\* Lines 66-69: the genres of all users.  The list made of the set has no
\* defined order; every vector uses the same one, and sums over it do not
\* depend on it.
all_genres(d) == UNION {Keys(d[i].val) : i \in 1..Len(d)}

\* Line 77: prefs[genre][1] if genre in prefs else 0.  prefs is the user's
\* defaultdict: the test keeps the lookup from creating an entry.  [prefs, avg]
\* is the dict afterwards and the value read.
VectorEntry(user_prefs, genre) ==
    [prefs |-> user_prefs,
     avg |-> IF genre \in Keys(user_prefs) THEN Get(user_prefs, genre)[2] ELSE Zero]

\* Lines 74-79 for one user: the vector, and the user's dict after the reads.
RECURSIVE BuildVector(_, _, _)
BuildVector(user_prefs, genres, vector) ==
    IF genres = {} THEN [prefs |-> user_prefs, vector |-> vector]
    ELSE LET genre == CHOOSE g \in genres : TRUE
             e == VectorEntry(user_prefs, genre)
         IN  BuildVector(e.prefs, genres \ {genre}, vector @@ (genre :> e.avg))

\* Lines 72-79: user_vectors as a dict in the mapping's order, each value
\* [prefs, vector].
user_vectors(d) ==
    [i \in 1..Len(d) |->
        [key |-> d[i].key, val |-> BuildVector(d[i].val, all_genres(d), <<>>)]]

RECURSIVE DotOver(_, _, _)
DotOver(a, b, genres) ==
    IF genres = {} THEN Zero
    ELSE LET g == CHOOSE x \in genres : TRUE
         IN  RatAdd(RatMul(a[g], b[g]), DotOver(a, b, genres \ {g}))

\* np.dot
Dot(a, b) == DotOver(a, b, DOMAIN a)

\* np.linalg.norm(v) squared: the norm is its root, and is 0 iff this is 0.
NormSq(v) == Dot(v, v)

\* Lines 96-104.  The similarity dot / (norm_target * norm_user) is kept as
\* sim * |sim| = dot * |dot| / (norm_target^2 * norm_user^2), an exact
\* rational with the same sign and the same order as sim.
CosineSimilarity(target_vector, user_vector) ==
    LET dot_product == Dot(target_vector, user_vector)
        norm_target == NormSq(target_vector)
        norm_user == NormSq(user_vector)
    IN  IF norm_target = Zero \/ norm_user = Zero
        THEN Zero
        ELSE Rat(dot_product.n * Abs(dot_product.n) * norm_target.d * norm_user.d,
                 dot_product.d * dot_product.d * norm_target.n * norm_user.n)

\* Mutant of InsertDesc: reverse=True is forgotten, the sort is ascending.
RECURSIVE InsertDesc_Ascending(_, _)
InsertDesc_Ascending(sorted, item) ==
    IF sorted = <<>> THEN <<item>>
    ELSE IF RatLess(item.val, Head(sorted).val)
    THEN <<item>> \o sorted
    ELSE <<Head(sorted)>> \o InsertDesc_Ascending(Tail(sorted), item)

\* sorted(items, key=lambda x: x[1], reverse=True): descending and stable,
\* items of equal key stay in their order.  items are [key, val] records and
\* val is the sort key.
RECURSIVE InsertDesc(_, _)
InsertDesc(sorted, item) ==
    IF sorted = <<>> THEN <<item>>
    ELSE IF RatLess(Head(sorted).val, item.val)
    THEN <<item>> \o sorted
    ELSE <<Head(sorted)>> \o InsertDesc(Tail(sorted), item)

RECURSIVE SortedDesc(_)
SortedDesc(items) ==
    IF items = <<>> THEN <<>>
    ELSE InsertDesc(SortedDesc(SubSeq(items, 1, Len(items) - 1)), items[Len(items)])

\* Mutant of Slice: one item too many, seq[:m + 1].
Slice_OffByOne(seq, m) ==
    IF m + 1 >= 0 THEN SubSeq(seq, 1, IF m + 1 < Len(seq) THEN m + 1 ELSE Len(seq))
    ELSE SubSeq(seq, 1, IF Len(seq) + m + 1 > 0 THEN Len(seq) + m + 1 ELSE 0)

\* seq[:m], m of either sign.
Slice(seq, m) ==
    IF m >= 0 THEN SubSeq(seq, 1, IF m < Len(seq) THEN m ELSE Len(seq))
    ELSE SubSeq(seq, 1, IF Len(seq) + m > 0 THEN Len(seq) + m ELSE 0)

\* Mutant of Similarities: the target is not passed over.
Similarities_WithTarget(target_user, vectors) ==
    LET target_vector == Get(vectors, target_user).vector
    IN  [i \in 1..Len(vectors) |->
            [key |-> vectors[i].key,
             val |-> CosineSimilarity(target_vector, vectors[i].val.vector)]]

\* Lines 87-106: similarities, a dict in the mapping's order without the target.
Similarities(target_user, vectors) ==
    LET target_vector == Get(vectors, target_user).vector
        others == SelectSeq(vectors, LAMBDA e : e.key # target_user)
    IN  [i \in 1..Len(others) |->
            [key |-> others[i].key,
             val |-> CosineSimilarity(target_vector, others[i].val.vector)]]

\* [ret, prefs]: the list returned, and the mapping after the call.
find_similar_users(target_user, d, m) ==
    IF target_user \notin Keys(d) THEN [ret |-> <<>>, prefs |-> d]
    ELSE LET vectors == user_vectors(d)
             similar_users == Slice(SortedDesc(Similarities(target_user, vectors)), m)
         IN  [ret |-> KeyList(similar_users),
              prefs |-> [i \in 1..Len(d) |-> [key |-> d[i].key, val |-> vectors[i].val.prefs]]]

(***************************************************************************)
(* The preference mappings of the ranker's and recommender's               *)
(* specifications: what the aggregator can return for some table.          *)
(***************************************************************************)
Users == {<<"user_", "A">>, <<"user_", "B">>, <<"user_", "C">>}

Rock == Str(<<"Rock">>)

Pop == Str(<<"Pop">>)

Jazz == Str(<<"Jazz">>)

\* (total, average, count) of ratings 0; 1; 1 and 2.
StatChoices == {<<0, Zero, 1>>, <<1, Rat(1, 1), 1>>, <<3, Rat(3, 2), 2>>}

Injective(s) == \A i, j \in 1..Len(s) : s[i] = s[j] => i = j

SeqsOver(S, maxLen) == UNION {[1..m -> S] : m \in 0..maxLen}

UserSeqs == {us \in SeqsOver(Users, Cardinality(Users)) : Injective(us)}

\* The dicts with the given genres as keys, in the given order.
DictsWithKeys(genres, stats) ==
    {[j \in 1..Len(genres) |-> [key |-> genres[j], val |-> st[j]]] :
        st \in [1..Len(genres) -> stats]}

\* The mapping with the users us, in that order, user us[i] with the dict f[i].
MapOf(us, f) == [i \in 1..Len(us) |-> [key |-> us[i], val |-> f[i]]]

\* The ranker reads no order of genres: each user's genres in one order.
RankDicts ==
    UNION {DictsWithKeys(gs, StatChoices) : gs \in {<<>>, <<Rock>>, <<Pop>>, <<Rock, Pop>>}}

InitRank ==
    /\ pc = "ready"
    /\ table = <<>>
    /\ \E us \in UserSeqs : \E f \in [1..Len(us) -> RankDicts] : prefs = MapOf(us, f)
    /\ err = "none"
    /\ NoArgs

FindSimilarUsers ==
    /\ pc = "ready"
    /\ \E target_user \in Users : \E m \in -1..MaxN :
          LET out == find_similar_users(target_user, prefs, m)
          IN  /\ target' = target_user
              /\ n' = m
              /\ ranked' = out.ret
              /\ prefs' = out.prefs
    /\ pc' = "returned"
    /\ fn' = "find_similar_users"
    /\ UNCHANGED <<table, err, similar, k, best>>

NextRank == FindSimilarUsers

SpecRank == InitRank /\ [][NextRank]_vars

(***************************************************************************)
(* Claims about find_similar_users, checked under SpecRank.                *)
(***************************************************************************)
RankReturned == pc = "returned" /\ fn = "find_similar_users"

\* The other users of the mapping, in its order.
OtherUsers(d, target_user) == SelectSeq(KeyList(d), LAMBDA u : u # target_user)

\* C5 (as claimed): for every integer n the list has at most n entries, none
\* when n = 0, and every other user when n is at least their number.
C5_AtMostN_AnyInteger ==
    RankReturned =>
        /\ Len(ranked) <= n
        /\ (n = 0 => ranked = <<>>)
        /\ (n >= Len(OtherUsers(prefs, target))
               => Range(OtherUsers(prefs, target)) \subseteq Range(ranked))

\* C5 (amended): for n >= 0 the list has at most n entries and none when
\* n = 0; when the target is a key of the mapping and n is at least the number
\* of other users, it holds all of them.
C5_AtMostN ==
    (RankReturned /\ n >= 0) =>
        /\ Len(ranked) <= n
        /\ (n = 0 => ranked = <<>>)
        /\ (target \in Keys(prefs) /\ n >= Len(OtherUsers(prefs, target))
               => Range(OtherUsers(prefs, target)) = Range(ranked))

\* A call that cuts the ranking: two other users, n = 1, one returned.
C5_Witness ==
    /\ RankReturned
    /\ target \in Keys(prefs)
    /\ Len(OtherUsers(prefs, target)) = 2
    /\ n = 1
    /\ Len(ranked) = 1

\* C6: the list never holds the target, holds no user twice and holds only
\* keys of the mapping, for every n.
C6_OthersOnlyOnce ==
    RankReturned =>
        /\ target \notin Range(ranked)
        /\ Injective(ranked)
        /\ Range(ranked) \subseteq Keys(prefs)

\* Both other users returned, in an order that is not the mapping's.
C6_Witness ==
    /\ RankReturned
    /\ target \in Keys(prefs)
    /\ Len(ranked) = 2
    /\ ranked # OtherUsers(prefs, target)

\* The average of (u, g), 0 where u has no stat for g.
AvgOf(d, u, g) == IF HasEntry(d, u, g) THEN Get(Get(d, u), g)[2] ELSE Zero

RECURSIVE SumProducts(_, _, _, _)
SumProducts(d, u, v, genres) ==
    IF genres = {} THEN Zero
    ELSE LET g == CHOOSE x \in genres : TRUE
         IN  RatAdd(RatMul(AvgOf(d, u, g), AvgOf(d, v, g)),
                    SumProducts(d, u, v, genres \ {g}))

\* The dot product over the union of all genres: only the genres both users
\* have can add to it.
RefDot(d, u, v) == SumProducts(d, u, v, Keys(Get(d, u)) \cap Keys(Get(d, v)))

\* The square of the cosine similarity of u and v (averages are never
\* negative, so squares order as the similarities do); 0 when a norm is 0.
RefSimSq(d, u, v) ==
    LET nu == RefDot(d, u, u)
        nv == RefDot(d, v, v)
        uv == RefDot(d, u, v)
    IN  IF nu = Zero \/ nv = Zero THEN Zero
        ELSE Rat(uv.n * uv.n * nu.d * nv.d, uv.d * uv.d * nu.n * nv.n)

\* C7: for a target in the mapping and n >= 0, the list is in non-increasing
\* order of similarity to the target, no user left out is strictly more
\* similar than a user returned, and when the target's vector is all zero the
\* list is the first n other users in the mapping's order.
C7_RankedBySimilarity ==
    (RankReturned /\ target \in Keys(prefs) /\ n >= 0) =>
        LET others == OtherUsers(prefs, target)
            sim(u) == RefSimSq(prefs, target, u)
        IN  /\ Range(ranked) \subseteq Range(others)
            /\ \A i, j \in 1..Len(ranked) :
                  i < j => ~RatLess(sim(ranked[i]), sim(ranked[j]))
            /\ \A u \in Range(others) \ Range(ranked) : \A v \in Range(ranked) :
                  ~RatLess(sim(v), sim(u))
            /\ RefDot(prefs, target, target) = Zero
                  => ranked = SubSeq(others, 1, IF n < Len(others) THEN n ELSE Len(others))

\* The user later in the mapping is strictly more similar and is the one
\* returned for n = 1.
C7_Witness ==
    /\ RankReturned
    /\ target \in Keys(prefs)
    /\ n = 1
    /\ Len(OtherUsers(prefs, target)) = 2
    /\ ranked = <<OtherUsers(prefs, target)[2]>>
    /\ RatLess(RefSimSq(prefs, target, OtherUsers(prefs, target)[1]),
               RefSimSq(prefs, target, OtherUsers(prefs, target)[2]))
    /\ RatLess(RefSimSq(prefs, target, OtherUsers(prefs, target)[2]), Rat(1, 1))

(***************************************************************************)
(* find_next_best_genre.                                                   *)
(***************************************************************************)
\* d[key] on a defaultdict: an absent key is created with the default.
\* [d, val]: the dict afterwards and the value.
DefaultGet(d, key, default) ==
    IF key \in Keys(d) THEN [d |-> d, val |-> Get(d, key)]
    ELSE [d |-> Append(d, [key |-> key, val |-> default]), val |-> default]

\* Mutant of NothingToRecommend: the target is not looked up.
NothingToRecommend_ListOnly(target_user, d, similar_users) ==
    similar_users = <<>>

\* Line 125: the calls that return None at once.
NothingToRecommend(target_user, d, similar_users) ==
    similar_users = <<>> \/ target_user \notin Keys(d)

\* Mutant of TargetTopGenres: sorted by total (x[1][0]), not by average.
TargetTopGenres_ByTotal(target_prefs, kk) ==
    LET items == [j \in 1..Len(target_prefs) |->
                     [key |-> target_prefs[j].key, val |-> Rat(target_prefs[j].val[1], 1)]]
    IN  Range(KeyList(Slice(SortedDesc(items), kk)))

\* Lines 130-131: the target's genres sorted by average, descending, the first
\* kk of them, as a set.
TargetTopGenres(target_prefs, kk) ==
    LET items == [j \in 1..Len(target_prefs) |->
                     [key |-> target_prefs[j].key, val |-> target_prefs[j].val[2]]]
    IN  Range(KeyList(Slice(SortedDesc(items), kk)))

\* Mutant of SimilarUserPrefs: the mapping is indexed without the test.
SimilarUserPrefs_NoGuard(d, user) ==
    LET r == DefaultGet(d, user, <<>>)
    IN  [skip |-> FALSE, d |-> r.d, prefs |-> r.val]

\* Lines 137-140: a listed user that is no key of the mapping is passed over
\* before the mapping is indexed.  [skip, d, prefs]
SimilarUserPrefs(d, user) ==
    IF user \notin Keys(d) THEN [skip |-> TRUE, d |-> d, prefs |-> <<>>]
    ELSE LET r == DefaultGet(d, user, <<>>)
         IN  [skip |-> FALSE, d |-> r.d, prefs |-> r.val]

\* similar_users.index(user), zero-based: the first position of user.
ListIndex(similar_users, user) ==
    (CHOOSE i \in 1..Len(similar_users) :
        /\ similar_users[i] = user
        /\ \A j \in 1..(i - 1) : similar_users[j] # user) - 1

\* Line 148
SimilarityWeight(similar_users, user) ==
    Rat(Len(similar_users) - ListIndex(similar_users, user), Len(similar_users))

\* Mutant of AddScore: the score is assigned, not added to.
AddScore_Overwrite(genre_scores, genre, avg_rating, similarity_weight) ==
    Put(genre_scores, genre, RatMul(avg_rating, similarity_weight))

\* Line 149: genre_scores[genre] += avg_rating * similarity_weight, on a
\* defaultdict(float).
AddScore(genre_scores, genre, avg_rating, similarity_weight) ==
    Put(genre_scores, genre,
        RatAdd(DefaultGet(genre_scores, genre, Zero).val,
               RatMul(avg_rating, similarity_weight)))

\* Lines 141-149 for one listed user: the items of user_prefs from j on.
RECURSIVE ScoreGenres(_, _, _, _, _, _)
ScoreGenres(genre_scores, user_prefs, j, top, similar_users, user) ==
    IF j > Len(user_prefs) THEN genre_scores
    ELSE LET genre == user_prefs[j].key
             avg_rating == user_prefs[j].val[2]
         IN  IF genre \in top
             THEN ScoreGenres(genre_scores, user_prefs, j + 1, top, similar_users, user)
             ELSE ScoreGenres(AddScore(genre_scores, genre, avg_rating,
                                       SimilarityWeight(similar_users, user)),
                              user_prefs, j + 1, top, similar_users, user)

\* Lines 136-149: the listed users from position i on.  acc is [d, scores].
RECURSIVE ScoreUsers(_, _, _, _)
ScoreUsers(acc, similar_users, i, top) ==
    IF i > Len(similar_users) THEN acc
    ELSE LET user == similar_users[i]
             u == SimilarUserPrefs(acc.d, user)
         IN  IF u.skip THEN ScoreUsers([d |-> u.d, scores |-> acc.scores], similar_users, i + 1, top)
             ELSE ScoreUsers([d |-> u.d,
                              scores |-> ScoreGenres(acc.scores, u.prefs, 1, top,
                                                     similar_users, user)],
                             similar_users, i + 1, top)

\* [ret, prefs]: <<>> for None or <<genre>>, and the mapping after the call.
find_next_best_genre(target_user, d, similar_users, kk) ==
    IF NothingToRecommend(target_user, d, similar_users) THEN [ret |-> <<>>, prefs |-> d]
    ELSE LET t == DefaultGet(d, target_user, <<>>)
             target_top_genres == TargetTopGenres(t.val, kk)
             acc == ScoreUsers([d |-> t.d, scores |-> <<>>], similar_users, 1,
                               target_top_genres)
             sorted_genres == SortedDesc(acc.scores)
         IN  IF acc.scores = <<>> THEN [ret |-> <<>>, prefs |-> acc.d]
             ELSE [ret |-> <<sorted_genres[1].key>>, prefs |-> acc.d]

(***************************************************************************)
(* The specification of the two queries on a mapping.                      *)
(***************************************************************************)
\* (total, average, count) of rating 2; of ratings 1 and 2.
RecStatChoices == {<<2, Rat(2, 1), 1>>, <<3, Rat(3, 2), 2>>}

\* The keys of a user's dict: at most two of three genres, in either order.
GenreSeqs ==
    {<<>>, <<Rock>>, <<Pop>>, <<Jazz>>,
     <<Rock, Pop>>, <<Pop, Rock>>, <<Rock, Jazz>>, <<Jazz, Rock>>,
     <<Pop, Jazz>>, <<Jazz, Pop>>}

RecDicts == UNION {DictsWithKeys(gs, RecStatChoices) : gs \in GenreSeqs}

\* The users of the mapping; the third user is a key of none.
RecUserSeqs ==
    {us \in UserSeqs : Range(us) \subseteq {<<"user_", "A">>, <<"user_", "B">>}}

\* The lists handed to the recommender: any users, in the mapping or not,
\* repeated or not.
SimilarLists == SeqsOver(Users, MaxSimilar)

Init ==
    /\ pc = "ready"
    /\ table = <<>>
    /\ \E us \in RecUserSeqs : \E f \in [1..Len(us) -> RecDicts] : prefs = MapOf(us, f)
    /\ err = "none"
    /\ NoArgs

FindNextBestGenre ==
    /\ pc = "ready"
    /\ \E target_user \in Users : \E similar_users \in SimilarLists : \E kk \in 0..MaxK :
          LET out == find_next_best_genre(target_user, prefs, similar_users, kk)
          IN  /\ target' = target_user
              /\ similar' = similar_users
              /\ k' = kk
              /\ best' = out.ret
              /\ prefs' = out.prefs
    /\ pc' = "returned"
    /\ fn' = "find_next_best_genre"
    /\ UNCHANGED <<table, err, n, ranked>>

Next == FindSimilarUsers \/ FindNextBestGenre

Spec == Init /\ [][Next]_vars

(***************************************************************************)
(* Claims about the two queries, checked under Spec.                       *)
(***************************************************************************)
RecReturned == pc = "returned" /\ fn = "find_next_best_genre"

\* C4: a call of find_similar_users with a target that is no key of the
\* mapping it is given returns the empty list, and a call of
\* find_next_best_genre with an empty list of similar users or such a target
\* returns None; neither raises.
C4_FailSoft ==
    [][/\ (pc' = "returned" /\ fn' = "find_similar_users" /\ target' \notin Keys(prefs))
             => (ranked' = <<>> /\ err' = "none")
       /\ (pc' = "returned" /\ fn' = "find_next_best_genre"
              /\ (similar' = <<>> \/ target' \notin Keys(prefs)))
             => (best' = <<>> /\ err' = "none")]_vars

\* An unknown target with similar users that have genres to offer.
C4_Witness ==
    /\ RecReturned
    /\ target \notin Keys(prefs)
    /\ similar # <<>>
    /\ \E u \in Range(similar) : u \in Keys(prefs) /\ Get(prefs, u) # <<>>
    /\ k = 0

\* The genres that come before g when the dict's genres are sorted by average,
\* descending, equal averages kept in the dict's order.
Before(user_prefs, g) ==
    {h \in Keys(user_prefs) :
        \/ RatLess(Get(user_prefs, g)[2], Get(user_prefs, h)[2])
        \/ /\ Get(user_prefs, h)[2] = Get(user_prefs, g)[2]
           /\ IndexOf(user_prefs, h) < IndexOf(user_prefs, g)}

\* The first kk genres of that order.
RefTopK(user_prefs, kk) ==
    {g \in Keys(user_prefs) : Cardinality(Before(user_prefs, g)) < kk}

\* C8: for k >= 0 the genre returned is never one of the target's top-k
\* genres; when the target has at most k genres it is none of the target's.
C8_NeverTopK ==
    (RecReturned /\ k >= 0 /\ best # <<>>) =>
        LET target_prefs == Get(prefs, target)
        IN  /\ target \in Keys(prefs)
            /\ best[1] \notin RefTopK(target_prefs, k)
            /\ Len(target_prefs) <= k => best[1] \notin Keys(target_prefs)

\* A genre is returned although a listed user rates one of the target's top-1
\* genres at least as high, and the target has a second genre left in play.
C8_Witness ==
    /\ RecReturned
    /\ k = 1
    /\ target \in Keys(prefs)
    /\ Len(Get(prefs, target)) = 2
    /\ best # <<>>
    /\ \E u \in Range(similar) : \E g \in RefTopK(Get(prefs, target), 1) :
          /\ u # target
          /\ HasEntry(prefs, u, g)
          /\ HasEntry(prefs, u, best[1])
          /\ RatLess(AvgOf(prefs, u, best[1]), AvgOf(prefs, u, g))

\* The listed positions whose user is a key of the mapping and has genre g.
Contributors(d, similar_users, g) ==
    {p \in 1..Len(similar_users) : HasEntry(d, similar_users[p], g)}

FirstPosition(similar_users, user) ==
    CHOOSE p \in 1..Len(similar_users) :
        similar_users[p] = user /\ \A q \in 1..(p - 1) : similar_users[q] # user

RECURSIVE SumContributions(_, _, _, _)
SumContributions(d, similar_users, g, P) ==
    IF P = {} THEN Zero
    ELSE LET p == CHOOSE x \in P : TRUE
             user == similar_users[p]
             weight == Rat(Len(similar_users) - (FirstPosition(similar_users, user) - 1),
                           Len(similar_users))
         IN  RatAdd(RatMul(AvgOf(d, user, g), weight),
                    SumContributions(d, similar_users, g, P \ {p}))

\* score(g): the sum over the listed users that have g of
\* average(user, g) * (1 - position / len(similar_users)).
RefScore(d, similar_users, g) ==
    SumContributions(d, similar_users, g, Contributors(d, similar_users, g))

\* The genres in play: outside the target's top-k set and held by a listed user.
Candidates(d, target_user, similar_users, kk) ==
    {g \in all_genres(d) :
        /\ g \notin RefTopK(Get(d, target_user), kk)
        /\ Contributors(d, similar_users, g) # {}}

\* When g is first accumulated: the first listed position that has it, then
\* its place in that user's dict.
FirstAccumulated(d, similar_users, g) ==
    LET p == CHOOSE x \in Contributors(d, similar_users, g) :
                 \A y \in Contributors(d, similar_users, g) : x <= y
    IN  <<p, IndexOf(Get(d, similar_users[p]), g)>>

LexLess(a, b) == a[1] < b[1] \/ (a[1] = b[1] /\ a[2] < b[2])

\* C9: for a target in the mapping and a non-empty list, None is returned
\* exactly when no genre is in play; otherwise the genre returned is in play,
\* no genre in play has a greater score, and of those with an equal score it
\* is the first accumulated.
C9_MaxScore ==
    (RecReturned /\ target \in Keys(prefs) /\ similar # <<>>) =>
        LET C == Candidates(prefs, target, similar, k)
        IN  /\ (best = <<>>) <=> (C = {})
            /\ best # <<>> =>
                 /\ best[1] \in C
                 /\ \A g \in C :
                       /\ ~RatLess(RefScore(prefs, similar, best[1]),
                                   RefScore(prefs, similar, g))
                       /\ (g # best[1] /\ RefScore(prefs, similar, g)
                                            = RefScore(prefs, similar, best[1]))
                             => LexLess(FirstAccumulated(prefs, similar, best[1]),
                                        FirstAccumulated(prefs, similar, g))

\* The genre returned wins by the sum of two users' contributions: a genre
\* that the first listed user alone scores higher loses to it.
C9_Witness ==
    /\ RecReturned
    /\ target \in Keys(prefs)
    /\ Len(similar) = 2
    /\ best # <<>>
    /\ Cardinality(Contributors(prefs, similar, best[1])) = 2
    /\ similar[1] # similar[2]
    /\ \E g \in Candidates(prefs, target, similar, k) :
          /\ g # best[1]
          /\ RatLess(AvgOf(prefs, similar[1], best[1]), AvgOf(prefs, similar[1], g))
          /\ RatLess(RefScore(prefs, similar, g), RefScore(prefs, similar, best[1]))

\* C10: neither query changes the mapping: no user key and no genre key is
\* created and no stats are modified.
C10_MappingUnchanged ==
    [][(FindSimilarUsers \/ FindNextBestGenre) => prefs' = prefs]_vars

\* A recommendation computed with an unknown user in the list and a listed
\* user that lacks a genre another has.
C10_Witness ==
    /\ RecReturned
    /\ target \in Keys(prefs)
    /\ best # <<>>
    /\ \E u \in Range(similar) : u \notin Keys(prefs)
    /\ \E u \in Keys(prefs) : \E g \in all_genres(prefs) : ~HasEntry(prefs, u, g)

====
